---- MODULE Spec2Model ----
(***************************************************************************)
(* Diagram extraction and region merging of the CBSE question parser.      *)
(*                                                                         *)
(* The model follows extract_diagrams_from_pdf (both copies: the one in    *)
(* logic/diagram_extraction.py and the one in end_to_end.py) page by page, *)
(* and log_diagram_snippets of end_to_end.py figure by figure.             *)
(*                                                                         *)
(* A document is a sequence of pages.  A page is what the detector and the *)
(* non-max suppression hand to the merger: either a failure of the         *)
(* detector, or the list of surviving detections (box, class id).          *)
(* Coordinates are floats in the program; here they are integers counted   *)
(* in 1/Sub of a pixel, so that int() of a coordinate is a real            *)
(* truncation.                                                             *)
(***************************************************************************)
EXTENDS Integers, Sequences, FiniteSets, TLC

VARIABLES
  entry,            \* which copy of extract_diagrams_from_pdf runs
  pages,            \* the rasterized document with the detector's answers
  pc,               \* position in the program
  p,                \* number of pages taken from `pages` so far
  results,          \* visualizations appended so far
  figure_snippets,  \* per-page list of crops appended so far
  fig_boxes,        \* figure-class boxes of the current page
  parents,          \* union-find array of the current page
  i1, j1,           \* the pair the union loop looks at next
  groups,           \* defaultdict(list): root -> member indices, insertion order
  ubox,             \* (x1_, y1_, x2_, y2_) of each group, in `groups` order
  merged,           \* list of (y1_, crop) of the current page
  meta,             \* meta["figures"] of log_diagram_snippets
  fig_counter,      \* fig_counter of log_diagram_snippets
  page_idx, fig_k,  \* position of log_diagram_snippets in figure_snippets
  images,           \* files figure-<k>.png written so far: k -> crop
  caller,           \* who calls extract_diagrams_from_pdf
  pdf,              \* "ok", or "corrupt": the file cannot be rasterized
  thr_req,          \* (conf, iou) the caller was given, in hundredths
  thr_used,         \* (conf, iou) predict and nms are called with
  raw,              \* detections of predict on the page, before nms
  ret,              \* what run_step_1 or the endpoint hands back
  run,              \* number of the run on this document
  prev,             \* what the previous run on this document produced
  st_errors,        \* st.error calls so far
  preview,          \* the labelled crops of the composed preview
  grouplog,         \* the groups each processed page ended with
  meta_file,        \* contents of logs/diagrams/meta_data.json
  disk_fail,        \* the figure id whose fig_img.save raises, 0 for none
  model_loaded,     \* _model of end_to_end.py is not None
  pipe              \* state of run_end_to_end_processing

vars == <<entry, pages, pc, p, results, figure_snippets, fig_boxes, parents,
          i1, j1, groups, ubox, merged, meta, fig_counter, page_idx, fig_k,
          images, caller, pdf, thr_req, thr_used, raw, ret, run, prev,
          st_errors, preview, grouplog, meta_file, disk_fail, model_loaded,
          pipe>>

pageLocals == <<fig_boxes, parents, i1, j1, groups, ubox, merged>>
logVars == <<meta, fig_counter, page_idx, fig_k, images>>
callVars == <<caller, pdf, thr_req, thr_used, raw, ret, run, prev>>
outVars == <<st_errors, preview, grouplog, meta_file>>
envVars == <<disk_fail, model_loaded, pipe>>

----------------------------------------------------------------------------
(* Bounds of the model *)

MaxPages == 3     \* pages of a document (document specification)
DocBoxes == 2     \* detections per page (document specification)
MaxBoxes == 3     \* detections per page (page specification)
MaxY == 3         \* largest y coordinate (page specification)
Sub == 2          \* coordinates are counted in 1/Sub of a pixel
CallPages == 2    \* pages of a document (caller specification)
NmsBoxes == 3     \* detections of a page before nms (nms specification)

(* Program constants *)

FIGURE == 3       \* ID_TO_NAMES: 3 is 'figure'
PLAIN_TEXT == 1   \* ID_TO_NAMES: 1 is 'plain text'
TABLE == 5        \* ID_TO_NAMES: 5 is 'table'
NUM_CLASSES == 10 \* len(ID_TO_NAMES): the class ids are 0..9

----------------------------------------------------------------------------
(* Inputs *)

\* two columns side by side: the horizontal extents a box is drawn from
XSpans == {<<0, 1>>, <<2, 3>>}

\* boxes (x1, y1, x2, y2) in one of the columns, of every vertical span up to my
Boxes(my) ==
  {<<xs[1], ys[1], xs[2], ys[2]>> :
     xs \in XSpans, ys \in {v \in (0..my) \X (0..my) : v[1] < v[2]}}

\* a text block over the whole page and a table at its top
NonFigures(my) ==
  {[box |-> <<0, 0, 3, my>>, cls |-> PLAIN_TEXT],
   [box |-> <<1, 0, 2, 1>>, cls |-> TABLE]}

\* what nms leaves of one detection: its box and its class id
Detections(my) == [box : Boxes(my), cls : {FIGURE}] \cup NonFigures(my)

\* the figures of the document specification: one at the top, one below it,
\* each a pixel wide and high
DocDetections ==
  {[box |-> <<0, 0, Sub, Sub>>, cls |-> FIGURE],
   [box |-> <<0, 2 * Sub, Sub, 3 * Sub>>, cls |-> FIGURE]}

\* detections the detector should not give: figure boxes without area, and a
\* box of a class id the model has no name for, among well-formed ones
MalformedDetections ==
  {[box |-> <<0, 0, 1, 2>>, cls |-> FIGURE],
   [box |-> <<2, 2, 3, 3>>, cls |-> FIGURE],
   [box |-> <<2, 0, 2, MaxY>>, cls |-> FIGURE],
   [box |-> <<0, 1, 1, 1>>, cls |-> FIGURE],
   [box |-> <<0, 0, 1, 1>>, cls |-> NUM_CLASSES],
   [box |-> <<0, 0, 3, 1>>, cls |-> PLAIN_TEXT]}

SeqUpTo(S, k) == UNION {[1..m -> S] : m \in 0..k}

FailedPage == [fail |-> "predict", dets |-> <<>>]

PageInputs(D, nb) ==
  [fail : {"none"}, dets : SeqUpTo(D, nb)] \cup {FailedPage}

----------------------------------------------------------------------------
(* Helpers of the merger *)

Min(S) == CHOOSE x \in S : \A y \in S : x <= y
Max(S) == CHOOSE x \in S : \A y \in S : y <= x

Range(s) == {s[k] : k \in DOMAIN s}

\* int(v) of a non-negative float
IntPx(v) == v \div Sub

\* variant: tables taken for figures
IsFigureOrTable(cls) == cls \in {FIGURE, TABLE}

\* fig_indices / fig_boxes: the boxes whose class is 'figure', in input order
IsFigure(cls) == cls = FIGURE

RECURSIVE SelectFigBoxes(_)
SelectFigBoxes(dets) ==
  IF dets = <<>> THEN <<>>
  ELSE LET rest == SelectFigBoxes(Tail(dets))
       IN IF IsFigure(Head(dets).cls) THEN <<Head(dets).box>> \o rest ELSE rest

\* the i-th (0-based) figure box
FigBox(i) == fig_boxes[i + 1]

n == Len(fig_boxes)

\* variants of the overlap test: with a horizontal test added, with "or" for
\* "and", and with <= for <
VOverlapXY(A, B) == A[2] < B[4] /\ B[2] < A[4] /\ A[1] < B[3] /\ B[1] < A[3]
VOverlapOr(A, B) == A[2] < B[4] \/ B[2] < A[4]
VOverlapTouch(A, B) == A[2] <= B[4] /\ B[2] <= A[4]
VOverlapTouchInCopy(A, B) ==
  IF entry = "e2e" THEN A[2] <= B[4] /\ B[2] <= A[4]
  ELSE A[2] < B[4] /\ B[2] < A[4]
VOverlapContained(A, B) ==
  (A[2] <= B[2] /\ B[4] <= A[4]) \/ (B[2] <= A[2] /\ A[4] <= B[4])

\* y1_i < y2_j and y1_j < y2_i
VOverlap(A, B) == A[2] < B[4] /\ B[2] < A[4]

\* find(i): the value returned
RECURSIVE find(_, _)
find(par, i) == IF par[i] # i THEN find(par, par[i]) ELSE i

\* variant: find makes i a root of its own
compressDetach(par, i) == IF par[i] # i THEN [par EXCEPT ![i] = i] ELSE par

\* find(i): the parents array it leaves (path compression)
RECURSIVE compress(_, _)
compress(par, i) ==
  IF par[i] # i
    THEN LET q == compress(par, par[i])
         IN [q EXCEPT ![i] = find(par, par[i])]
    ELSE par

\* variant of union: parents[j] = pi instead of parents[pj] = pi
unionNoRoot(par, i, j) ==
  LET pi == find(par, i)
      q1 == compress(par, i)
      pj == find(q1, j)
      q2 == compress(q1, j)
  IN IF pi # pj THEN [q2 EXCEPT ![j] = pi] ELSE q2

\* union(i, j): the parents array it leaves
union(par, i, j) ==
  LET pi == find(par, i)
      q1 == compress(par, i)
      pj == find(q1, j)
      q2 == compress(q1, j)
  IN IF pi # pj THEN [q2 EXCEPT ![pj] = pi] ELSE q2

\* groups[root].append(idx) on a defaultdict(list) kept in insertion order
AppendToGroup(g, root, idx) ==
  IF \E k \in DOMAIN g : g[k].root = root
    THEN [k \in DOMAIN g |->
            IF g[k].root = root
              THEN [g[k] EXCEPT !.members = Append(@, idx)]
              ELSE g[k]]
    ELSE Append(g, [root |-> root, members |-> <<idx>>])

\* for idx in range(n): root = find(idx); groups[root].append(idx)
RECURSIVE GroupLoop(_, _, _, _)
GroupLoop(par, g, idx, cnt) ==
  IF idx >= cnt THEN [parents |-> par, groups |-> g]
  ELSE GroupLoop(compress(par, idx), AppendToGroup(g, find(par, idx), idx),
                 idx + 1, cnt)

\* variants of the union box: the box of the first member alone, and the
\* union over all figure boxes of the page
UnionBoxFirst(grp, boxes) == boxes[grp[1] + 1]
UnionBoxAll(grp, boxes) ==
  <<Min({boxes[k][1] : k \in DOMAIN boxes}),
    Min({boxes[k][2] : k \in DOMAIN boxes}),
    Max({boxes[k][3] : k \in DOMAIN boxes}),
    Max({boxes[k][4] : k \in DOMAIN boxes})>>

\* x1_ = min(xs1); y1_ = min(ys1); x2_ = max(xs2); y2_ = max(ys2)
UnionBox(grp, boxes) ==
  <<Min({boxes[i + 1][1] : i \in Range(grp)}),
    Min({boxes[i + 1][2] : i \in Range(grp)}),
    Max({boxes[i + 1][3] : i \in Range(grp)}),
    Max({boxes[i + 1][4] : i \in Range(grp)})>>

\* page.crop((int(x1_), int(y1_), int(x2_), int(y2_)))
Crop(page, b) ==
  [page |-> page, rect |-> <<IntPx(b[1]), IntPx(b[2]), IntPx(b[3]), IntPx(b[4])>>]

\* variant: an entry goes in front of the entries of the same key
RECURSIVE InsertBeforeEqual(_, _)
InsertBeforeEqual(s, e) ==
  IF s = <<>> THEN <<e>>
  ELSE IF e.y1 <= Head(s).y1 THEN <<e>> \o s
  ELSE <<Head(s)>> \o InsertBeforeEqual(Tail(s), e)

\* merged.sort(key=lambda x: x[0]): a stable sort on the first component
RECURSIVE InsertByKey(_, _)
InsertByKey(s, e) ==
  IF s = <<>> THEN <<e>>
  ELSE IF e.y1 < Head(s).y1 THEN <<e>> \o s
  ELSE <<Head(s)>> \o InsertByKey(Tail(s), e)

\* variant: the list is left in the order of the groups
SortSkipped(s) == s

RECURSIVE SortByKey(_)
SortByKey(s) ==
  IF s = <<>> THEN <<>>
  ELSE InsertByKey(SortByKey(SubSeq(s, 1, Len(s) - 1)), s[Len(s)])

----------------------------------------------------------------------------
(* Helpers of log_diagram_snippets *)

\* variant: one file name for every figure
FileNameFixed(c) == <<"figure-", 1, ".png">>

\* f"figure-{fig_counter}.png" under images_dir
FileName(c) == <<"figure-", c, ".png">>

\* variant: the list of the previous call is kept
MetaListKept == meta

\* meta = {"figures": []}
NewMetaList == <<>>

\* variant: the counter goes on from where the previous run left it
FirstFigureIdKept == IF run = 1 THEN 1 ELSE fig_counter

\* fig_counter = 1
FirstFigureId == 1

\* variant: the counter is not advanced
NextCounterStuck(c) == c

\* fig_counter += 1
NextCounter(c) == c + 1

\* fig_img.save(save_path): the file at save_path is created or overwritten
SaveImage(files, path, img) ==
  [f \in DOMAIN files \cup {path} |-> IF f = path THEN img ELSE files[f]]

\* variant: the page of the label counted from 0
PageLabelZeroBased(idx) == idx

\* page_text = f"Page {page_idx + 1}"
PageLabel(idx) == idx + 1

\* orig_w of fig_img.size
Width(crop) == crop.rect[3] - crop.rect[1]

\* compose_diagram_preview, the rendering pass: for each page with figures the
\* label "Page p", and under it "Figure k" and the thumbnail of each crop
RECURSIVE PreviewItems(_, _, _)
PreviewItems(fs, idx, counter) ==
  IF idx >= Len(fs) THEN <<>>
  ELSE [k \in 1..Len(fs[idx + 1]) |->
          [page |-> PageLabel(idx), figure |-> counter + k - 1,
           crop |-> fs[idx + 1][k]]]
         \o PreviewItems(fs, idx + 1, counter + Len(fs[idx + 1]))

NoPreview == [status |-> "none"]

\* compose_diagram_preview(figure_snippets, thumb_width=800) inside the try of
\* log_diagram_snippets: scale = thumb_width / orig_w raises on an empty crop,
\* and the except records meta['preview_error']
ComposePreview(fs) ==
  IF \E q \in DOMAIN fs : \E k \in DOMAIN fs[q] : Width(fs[q][k]) = 0
    THEN [status |-> "error"]
    ELSE [status |-> "ok", items |-> PreviewItems(fs, 0, 1)]

----------------------------------------------------------------------------
(* Initial states *)

NoFiles == [f \in {} |-> 0]

\* conf_threshold = 0.25, iou_threshold = 0.45, in hundredths
DEFAULT_CONF == 25
DEFAULT_IOU == 45
Defaults == <<DEFAULT_CONF, DEFAULT_IOU>>

\* nothing handed back yet
NoReturn == [success |-> "none"]

\* no meta_data.json on disk
NoMetaFile == [figures |-> <<>>, preview |-> FALSE, written |-> FALSE]

\* run_end_to_end_processing not entered
NoPipe == [step |-> 0]

\* the state of the program before a run: nothing processed, nothing logged
InitRun ==
  /\ p = 0
  /\ results = <<>>
  /\ figure_snippets = <<>>
  /\ fig_boxes = <<>>
  /\ parents = <<>>
  /\ i1 = 0
  /\ j1 = 0
  /\ groups = <<>>
  /\ ubox = <<>>
  /\ merged = <<>>
  /\ meta = <<>>
  /\ fig_counter = 0
  /\ page_idx = 0
  /\ fig_k = 0
  /\ ret = NoReturn
  /\ st_errors = <<>>
  /\ preview = NoPreview
  /\ grouplog = <<>>

\* extract_diagrams_from_pdf(file_path) on a readable file, at the page loop
InitWith(docs, entries) ==
  /\ entry \in entries
  /\ pages \in docs
  /\ pc = "loop"
  /\ InitRun
  /\ images = NoFiles
  /\ caller = "function"
  /\ pdf = "ok"
  /\ thr_req = Defaults
  /\ thr_used = Defaults
  /\ raw = <<>>
  /\ run = 1
  /\ prev = NoReturn
  /\ meta_file = NoMetaFile
  /\ disk_fail = 0
  /\ model_loaded = TRUE
  /\ pipe = NoPipe

\* documents of 1..MaxPages pages, each failing or with up to DocBoxes figures
Docs ==
  UNION {[1..m -> PageInputs(DocDetections, DocBoxes)] : m \in 1..MaxPages}

\* one page with up to MaxBoxes detections, the detector not failing
OnePageDocs ==
  {<<pg>> : pg \in PageInputs(Detections(MaxY), MaxBoxes) \ {FailedPage}}

\* one page with up to MaxBoxes detections, malformed ones among them
MalformedDocs ==
  {<<pg>> : pg \in [fail : {"none"}, dets : SeqUpTo(MalformedDetections, MaxBoxes)]}

\* three figures with the vertical spans 100..300, 250..400 and 600..800
\* pixels, detected in any order and each in any of three horizontal extents
ScenarioSpans == <<(<<100, 300>>), (<<250, 400>>), (<<600, 800>>)>>

ScenarioXSpans == {<<0, 100>>, <<50, 200>>, <<300, 400>>}

ScenarioOrders ==
  {f \in [1..3 -> 1..3] : \A a, b \in 1..3 : f[a] = f[b] => a = b}

ScenarioBox(xs, ys) ==
  [box |-> <<xs[1] * Sub, ys[1] * Sub, xs[2] * Sub, ys[2] * Sub>>,
   cls |-> FIGURE]

ScenarioDocs ==
  {<<[fail |-> "none",
      dets |-> [k \in 1..3 |-> ScenarioBox(xs[k], ScenarioSpans[f[k]])]]>> :
     f \in ScenarioOrders, xs \in [1..3 -> ScenarioXSpans]}

\* the height of the pages given to both copies
BothY == 2

\* one page with up to MaxBoxes detections, for both copies of the merger
BothDocs ==
  {<<pg>> : pg \in PageInputs(Detections(BothY), MaxBoxes) \ {FailedPage}}

\* figures that make groups of the same upper edge: a box without height
\* overlaps no box that starts at its own y
TieDetections ==
  [box : {<<0, 0, 1, 1>>, <<0, 2, 1, 3>>, <<0, 0, 1, 3>>,
          <<2, 0, 3, 0>>, <<2, 2, 3, 2>>},
   cls : {FIGURE}]

\* the number of detections of such a page
TieBoxes == 4

TieDocs ==
  {<<pg>> : pg \in [fail : {"none"}, dets : SeqUpTo(TieDetections, TieBoxes)]}

Init == InitWith(Docs, {"logic", "e2e"})

InitTies == InitWith(TieDocs, {"logic", "e2e"})

InitBoth == InitWith(BothDocs, {"logic"})

InitScenario == InitWith(ScenarioDocs, {"logic", "e2e"})

InitPage == InitWith(OnePageDocs, {"logic"})

InitMalformed == InitWith(MalformedDocs, {"logic", "e2e"})

----------------------------------------------------------------------------
(* extract_diagrams_from_pdf *)

\* variant: the list of the page is put in front
InsertListFirst(fs, figs) == <<figs>> \o fs

\* figure_snippets.append(page_figs)
AppendList(fs, figs) == Append(fs, figs)

\* variant: every other page is taken
NextPageSkips(q) == q + 2

\* for page in pages: the number of pages taken once the next one is
NextPageIndex(q) == q + 1

\* visualize_bbox of logic/visualization.py: color = cmap[class_id] with a
\* colormap of len(id_to_names) rows; an id past the last row raises
VisRaises(dets) == \E k \in DOMAIN dets : dets[k].cls >= NUM_CLASSES

\* the page raises before its list is appended: predict fails, or, in the copy
\* of logic/, visualize_bbox does (the one of end_to_end.py catches its errors)
PageFails(e, pg) ==
  \/ pg.fail # "none"
  \/ e = "logic" /\ VisRaises(pg.dets)

ResetLocals ==
  /\ fig_boxes' = <<>>
  /\ parents' = <<>>
  /\ i1' = 0
  /\ j1' = 0
  /\ groups' = <<>>
  /\ ubox' = <<>>
  /\ merged' = <<>>

\* for page in pages: predict, nms and visualize_bbox succeed
DetectPage ==
  /\ pc = "loop"
  /\ p < Len(pages)
  /\ ~PageFails(entry, pages[p + 1])
  /\ p' = NextPageIndex(p)
  /\ results' = Append(results, p + 1)
  /\ pc' = "select"
  /\ UNCHANGED <<entry, pages, figure_snippets>>
  /\ UNCHANGED pageLocals
  /\ UNCHANGED logVars
  /\ UNCHANGED callVars
  /\ UNCHANGED outVars
  /\ UNCHANGED envVars

\* end_to_end.py: the page raises, the except of the page appends []
PageErrorCaught ==
  /\ pc = "loop"
  /\ p < Len(pages)
  /\ PageFails(entry, pages[p + 1])
  /\ entry = "e2e"
  /\ p' = NextPageIndex(p)
  /\ figure_snippets' = AppendList(figure_snippets, <<>>)
  /\ UNCHANGED <<entry, pages, pc, results>>
  /\ UNCHANGED pageLocals
  /\ UNCHANGED logVars
  /\ UNCHANGED callVars
  /\ st_errors' = Append(st_errors, [page |-> p + 1])
  /\ UNCHANGED <<preview, grouplog, meta_file>>
  /\ UNCHANGED envVars

\* logic/diagram_extraction.py: the page raises, nothing catches it
PageErrorRaised ==
  /\ pc = "loop"
  /\ p < Len(pages)
  /\ PageFails(entry, pages[p + 1])
  /\ entry = "logic"
  /\ p' = NextPageIndex(p)
  /\ pc' = "raised"
  /\ UNCHANGED <<entry, pages, results, figure_snippets>>
  /\ UNCHANGED pageLocals
  /\ UNCHANGED logVars
  /\ UNCHANGED callVars
  /\ UNCHANGED outVars
  /\ UNCHANGED envVars

\* fig_indices, fig_boxes, n; parents = list(range(n)) or page_figs = []
SelectFigures ==
  /\ pc = "select"
  /\ LET fb == SelectFigBoxes(pages[p].dets)
     IN IF Len(fb) > 0
          THEN /\ fig_boxes' = fb
               /\ parents' = [i \in 0..(Len(fb) - 1) |-> i]
               /\ i1' = 0
               /\ j1' = 1
               /\ pc' = "union"
               /\ UNCHANGED <<figure_snippets, groups, ubox, merged>>
          ELSE /\ figure_snippets' = AppendList(figure_snippets, <<>>)
               /\ pc' = "loop"
               /\ ResetLocals
  /\ UNCHANGED <<entry, pages, p, results>>
  /\ UNCHANGED logVars
  /\ UNCHANGED callVars
  /\ UNCHANGED outVars
  /\ UNCHANGED envVars

\* one pass of the body of: for i1 in range(n): for j1 in range(i1 + 1, n)
UnionStep ==
  /\ pc = "union"
  /\ j1 < n
  /\ parents' = IF VOverlap(FigBox(i1), FigBox(j1))
                  THEN union(parents, i1, j1)
                  ELSE parents
  /\ IF j1 + 1 < n
       THEN i1' = i1 /\ j1' = j1 + 1
       ELSE i1' = i1 + 1 /\ j1' = i1 + 2
  /\ UNCHANGED <<entry, pages, pc, p, results, figure_snippets, fig_boxes,
                 groups, ubox, merged>>
  /\ UNCHANGED logVars
  /\ UNCHANGED callVars
  /\ UNCHANGED outVars
  /\ UNCHANGED envVars

\* groups = defaultdict(list); for idx in range(n): groups[find(idx)].append(idx)
GroupByRoot ==
  /\ pc = "union"
  /\ j1 >= n
  /\ LET r == GroupLoop(parents, <<>>, 0, n)
     IN parents' = r.parents /\ groups' = r.groups
  /\ pc' = "grouped"
  /\ UNCHANGED <<entry, pages, p, results, figure_snippets, fig_boxes,
                 i1, j1, ubox, merged>>
  /\ UNCHANGED logVars
  /\ UNCHANGED callVars
  /\ UNCHANGED outVars
  /\ UNCHANGED envVars

\* merged = [(y1_, crop) for grp in groups.values()]; merged.sort(...)
BuildMerged ==
  /\ pc = "grouped"
  /\ ubox' = [k \in 1..Len(groups) |-> UnionBox(groups[k].members, fig_boxes)]
  /\ merged' = SortByKey([k \in 1..Len(groups) |->
                   [y1 |-> ubox'[k][2], crop |-> Crop(p, ubox'[k])]])
  /\ pc' = "sorted"
  /\ UNCHANGED <<entry, pages, p, results, figure_snippets, fig_boxes,
                 parents, i1, j1, groups>>
  /\ UNCHANGED logVars
  /\ UNCHANGED callVars
  /\ UNCHANGED outVars
  /\ UNCHANGED envVars

\* page_figs = [crop for _, crop in merged]; figure_snippets.append(page_figs)
AppendPage ==
  /\ pc = "sorted"
  /\ figure_snippets' =
       AppendList(figure_snippets, [k \in 1..Len(merged) |-> merged[k].crop])
  /\ pc' = "loop"
  /\ ResetLocals
  /\ UNCHANGED <<entry, pages, p, results>>
  /\ UNCHANGED logVars
  /\ UNCHANGED callVars
  /\ grouplog' = Append(grouplog, [page |-> p, groups |-> groups])
  /\ UNCHANGED <<st_errors, preview, meta_file>>
  /\ UNCHANGED envVars

\* the pair extract_diagrams_from_pdf returns
ExtractReturn == [results |-> results, figure_snippets |-> figure_snippets]

\* return results, figure_snippets
Return ==
  /\ pc = "loop"
  /\ p = Len(pages)
  /\ pc' = "returned"
  /\ UNCHANGED <<entry, pages, p, results, figure_snippets>>
  /\ UNCHANGED pageLocals
  /\ UNCHANGED logVars
  /\ UNCHANGED callVars
  /\ UNCHANGED outVars
  /\ UNCHANGED envVars

----------------------------------------------------------------------------
(* log_diagram_snippets of end_to_end.py *)

\* meta = {"figures": []}; fig_counter = 1; the loops start
LogStart ==
  /\ pc = "returned"
  /\ entry = "e2e"
  /\ meta' = NewMetaList
  /\ fig_counter' = FirstFigureId
  /\ page_idx' = 0
  /\ fig_k' = 0
  /\ pc' = "logging"
  /\ UNCHANGED <<entry, pages, p, results, figure_snippets, images>>
  /\ UNCHANGED pageLocals
  /\ UNCHANGED callVars
  /\ UNCHANGED outVars
  /\ UNCHANGED envVars

\* one pass of the body of: for fig_img in figs
LogFigure ==
  /\ pc = "logging"
  /\ page_idx < Len(figure_snippets)
  /\ fig_k < Len(figure_snippets[page_idx + 1])
  /\ fig_counter # disk_fail
  /\ images' = SaveImage(images, FileName(fig_counter),
                         figure_snippets[page_idx + 1][fig_k + 1])
  /\ meta' = Append(meta, [figure_id |-> fig_counter,
                           page |-> page_idx + 1,
                           path |-> FileName(fig_counter)])
  /\ fig_counter' = NextCounter(fig_counter)
  /\ fig_k' = fig_k + 1
  /\ UNCHANGED <<entry, pages, pc, p, results, figure_snippets, page_idx>>
  /\ UNCHANGED pageLocals
  /\ UNCHANGED callVars
  /\ UNCHANGED outVars
  /\ UNCHANGED envVars

\* for page_idx, figs in enumerate(figure_snippets): the next page
LogNextPage ==
  /\ pc = "logging"
  /\ page_idx < Len(figure_snippets)
  /\ fig_k = Len(figure_snippets[page_idx + 1])
  /\ page_idx' = page_idx + 1
  /\ fig_k' = 0
  /\ UNCHANGED <<entry, pages, pc, p, results, figure_snippets, meta,
                 fig_counter, images>>
  /\ UNCHANGED pageLocals
  /\ UNCHANGED callVars
  /\ UNCHANGED outVars
  /\ UNCHANGED envVars

\* json.dump(meta, mf); the preview is composed; return images_dir, meta_path
LogWrite ==
  /\ pc = "logging"
  /\ page_idx = Len(figure_snippets)
  /\ pc' = "logged"
  /\ UNCHANGED <<entry, pages, p, results, figure_snippets>>
  /\ UNCHANGED pageLocals
  /\ UNCHANGED logVars
  /\ UNCHANGED callVars
  /\ preview' = ComposePreview(figure_snippets)
  /\ meta_file' = [figures |-> meta,
                   preview |-> ComposePreview(figure_snippets).status = "ok",
                   written |-> TRUE]
  /\ UNCHANGED <<st_errors, grouplog>>
  /\ UNCHANGED envVars

\* fig_img.save(save_path) raises: the outer except of log_diagram_snippets
\* calls st.error and returns None, None; meta_data.json is not written
LogSaveFails ==
  /\ pc = "logging"
  /\ page_idx < Len(figure_snippets)
  /\ fig_k < Len(figure_snippets[page_idx + 1])
  /\ fig_counter = disk_fail
  /\ st_errors' = Append(st_errors, [page |-> 0])
  /\ pc' = "log_failed"
  /\ UNCHANGED <<entry, pages, p, results, figure_snippets>>
  /\ UNCHANGED pageLocals
  /\ UNCHANGED logVars
  /\ UNCHANGED callVars
  /\ UNCHANGED <<preview, grouplog, meta_file>>
  /\ UNCHANGED envVars

----------------------------------------------------------------------------
(* The callers of extract_diagrams_from_pdf *)

\* the function called directly, run_step_1, POST /extract-diagrams, and
\* POST /process-pipeline through run_end_to_end_processing
Callers == {"function", "run_step_1", "extract_diagrams", "process_pipeline"}

\* views/main.py calls the copy of logic/, the others the copy of end_to_end.py
CallPairs ==
  {<<"logic", "function">>} \cup {<<"e2e", c>> : c \in Callers \ {"function"}}

\* (conf, iou) a caller can be given, in hundredths
ThresholdChoices == {Defaults, <<50, 70>>}

\* the thresholds the caller passes on to extract_diagrams_from_pdf
PassedThresholds(c, req) == IF c = "function" THEN req ELSE Defaults

\* sum(len(figs) for figs in figure_snippets)
RECURSIVE TotalFigures(_)
TotalFigures(fs) ==
  IF fs = <<>> THEN 0 ELSE Len(Head(fs)) + TotalFigures(Tail(fs))

\* documents of 1..CallPages pages, each failing or with up to DocBoxes figures
CallDocs ==
  UNION {[1..m -> PageInputs(DocDetections, DocBoxes)] : m \in 1..CallPages}

\* _model of the copy called: end_to_end.py keeps None when _load_model failed,
\* logic/diagram_extraction.py cannot be imported without its model
ModelStates(e) == IF e = "e2e" THEN BOOLEAN ELSE {TRUE}

\* a request with thresholds, on a readable or on a corrupt file
InitCall ==
  /\ \E pr \in CallPairs : entry = pr[1] /\ caller = pr[2]
  /\ pdf \in {"ok", "corrupt"}
  /\ pages \in IF pdf = "ok" THEN CallDocs ELSE {<<>>}
  /\ thr_req \in ThresholdChoices
  /\ thr_used = <<>>
  /\ pc = "call"
  /\ InitRun
  /\ images = NoFiles
  /\ raw = <<>>
  /\ run = 1
  /\ prev = NoReturn
  /\ meta_file = NoMetaFile
  /\ disk_fail = 0
  /\ model_loaded \in ModelStates(entry)
  /\ pipe = NoPipe

\* the call of extract_diagrams_from_pdf with the thresholds passed on
CallExtract ==
  /\ pc = "call"
  /\ thr_used' = PassedThresholds(caller, thr_req)
  /\ pc' = "open"
  /\ UNCHANGED <<entry, pages, p, results, figure_snippets>>
  /\ UNCHANGED pageLocals
  /\ UNCHANGED logVars
  /\ UNCHANGED <<caller, pdf, thr_req, raw, ret, run, prev>>
  /\ UNCHANGED outVars
  /\ UNCHANGED envVars

\* pages = convert_from_bytes(f.read()) succeeds
OpenPdf ==
  /\ pc = "open"
  /\ pdf = "ok"
  /\ model_loaded
  /\ pc' = "loop"
  /\ UNCHANGED <<entry, pages, p, results, figure_snippets>>
  /\ UNCHANGED pageLocals
  /\ UNCHANGED logVars
  /\ UNCHANGED callVars
  /\ UNCHANGED outVars
  /\ UNCHANGED envVars

\* end_to_end.py: convert_from_bytes raises, the outer except returns [], []
OpenPdfCaught ==
  /\ pc = "open"
  /\ pdf = "corrupt"
  /\ entry = "e2e"
  /\ model_loaded
  /\ st_errors' = Append(st_errors, [page |-> 0])
  /\ results' = <<>>
  /\ figure_snippets' = <<>>
  /\ pc' = "returned"
  /\ UNCHANGED <<entry, pages, p>>
  /\ UNCHANGED pageLocals
  /\ UNCHANGED logVars
  /\ UNCHANGED callVars
  /\ UNCHANGED <<preview, grouplog, meta_file>>
  /\ UNCHANGED envVars

\* end_to_end.py: if _model is None: st.error(...); return [], []
OpenNoModel ==
  /\ pc = "open"
  /\ entry = "e2e"
  /\ ~model_loaded
  /\ st_errors' = Append(st_errors, [page |-> 0])
  /\ results' = <<>>
  /\ figure_snippets' = <<>>
  /\ pc' = "returned"
  /\ UNCHANGED <<entry, pages, p>>
  /\ UNCHANGED pageLocals
  /\ UNCHANGED logVars
  /\ UNCHANGED callVars
  /\ UNCHANGED <<preview, grouplog, meta_file>>
  /\ UNCHANGED envVars

\* logic/diagram_extraction.py: convert_from_bytes raises, nothing catches it
OpenPdfRaised ==
  /\ pc = "open"
  /\ pdf = "corrupt"
  /\ entry = "logic"
  /\ pc' = "raised"
  /\ UNCHANGED <<entry, pages, p, results, figure_snippets>>
  /\ UNCHANGED pageLocals
  /\ UNCHANGED logVars
  /\ UNCHANGED callVars
  /\ UNCHANGED outVars
  /\ UNCHANGED envVars

\* return images_dir, meta_path of log_diagram_snippets, or None, None from its
\* outer except
LogReturn(at) ==
  IF at = "logged"
    THEN [images_dir |-> "logs/diagrams/images",
          meta_path |-> "logs/diagrams/meta_data.json"]
    ELSE [images_dir |-> "None", meta_path |-> "None"]

\* run_step_1 and step 1 of run_end_to_end_processing: the dict handed back
\* after extract_diagrams_from_pdf and log_diagram_snippets returned
Step1Return ==
  /\ pc \in {"logged", "log_failed"}
  /\ caller \in {"run_step_1", "extract_diagrams", "process_pipeline"}
  /\ ret' = [success |-> TRUE,
             parsed_images |-> results,
             figure_snippets |-> figure_snippets,
             images_dir |-> LogReturn(pc).images_dir,
             meta_path |-> LogReturn(pc).meta_path,
             total_figures |-> TotalFigures(figure_snippets)]
  /\ pc' = "step1_done"
  /\ UNCHANGED <<entry, pages, p, results, figure_snippets>>
  /\ UNCHANGED pageLocals
  /\ UNCHANGED logVars
  /\ UNCHANGED <<caller, pdf, thr_req, thr_used, raw, run, prev>>
  /\ UNCHANGED outVars
  /\ UNCHANGED envVars

\* POST /extract-diagrams: HTTP 500 unless result['success'], else the
\* DiagramExtractionResponse
EndpointRespond ==
  /\ pc = "step1_done"
  /\ caller = "extract_diagrams"
  /\ ret' = IF ret.success = TRUE
              THEN [success |-> TRUE,
                    status |-> 200,
                    total_figures |-> ret.total_figures,
                    pages_processed |-> Len(ret.figure_snippets)]
              ELSE [success |-> FALSE, status |-> 500]
  /\ pc' = "responded"
  /\ UNCHANGED <<entry, pages, p, results, figure_snippets>>
  /\ UNCHANGED pageLocals
  /\ UNCHANGED logVars
  /\ UNCHANGED <<caller, pdf, thr_req, thr_used, raw, run, prev>>
  /\ UNCHANGED outVars
  /\ UNCHANGED envVars

----------------------------------------------------------------------------
(* Non-max suppression of the detections of a page *)

\* boxes a box high and up: A and B share a third of their union, C shares two
\* thirds with each of them, D is apart
NmsBoxSet ==
  {<<0, 0, 1, 2>>, <<0, 1, 1, 3>>, <<0, 0, 1, 3>>, <<2, 0, 3, 1>>}

\* the orders of m confidences
Rankings(m) ==
  {f \in [1..m -> 1..m] : \A a, b \in 1..m : a # b => f[a] # f[b]}

\* confidences, in hundredths
Score(rank) == 50 + 10 * rank

\* what predict gives for a page: detections of two classes, d[k] with the
\* confidence of rank f[k], no two of the same confidence
RawInput(d, f) ==
  [k \in DOMAIN d |-> [box |-> d[k].box, cls |-> d[k].cls, score |-> Score(f[k])]]

Area(A) == (A[3] - A[1]) * (A[4] - A[2])

Inter(A, B) ==
  LET w == Min({A[3], B[3]}) - Max({A[1], B[1]})
      h == Min({A[4], B[4]}) - Max({A[2], B[2]})
  IN IF w > 0 /\ h > 0 THEN w * h ELSE 0

\* IoU(A, B) > t / 100
IoUAbove(A, B, t) ==
  Inter(A, B) * 100 > t * (Area(A) + Area(B) - Inter(A, B))

\* the indices of dets by descending score
RECURSIVE ByScore(_, _)
ByScore(dets, todo) ==
  IF todo = {} THEN <<>>
  ELSE LET top == CHOOSE k \in todo : \A l \in todo : dets[l].score <= dets[k].score
       IN <<top>> \o ByScore(dets, todo \ {top})

\* greedy suppression: a candidate is kept unless a kept one overlaps it by
\* more than the threshold
RECURSIVE Greedy(_, _, _, _)
Greedy(dets, order, kept, t) ==
  IF order = <<>> THEN kept
  ELSE LET c == Head(order)
       IN IF \E k \in Range(kept) : IoUAbove(dets[k].box, dets[c].box, t)
            THEN Greedy(dets, Tail(order), kept, t)
            ELSE Greedy(dets, Tail(order), Append(kept, c), t)

\* torchvision.ops.nms(boxes, scores, iou_threshold): the indices kept, by
\* descending score
Nms(dets, t) == Greedy(dets, ByScore(dets, DOMAIN dets), <<>>, t)

\* variant: the confidence threshold given for the IoU threshold
NmsThresholdConf == thr_used[1]

\* iou_threshold=iou_threshold
NmsThreshold == thr_used[2]

\* b, s, c = boxes[indices], scores[indices], classes[indices]
KeepIndexed(dets, indices) == [k \in DOMAIN indices |-> dets[indices[k]]]

\* extract_diagrams_from_pdf called with thresholds, on a page predict answered
InitNms ==
  /\ entry = "logic"
  /\ pages = <<>>
  /\ pc = "nms"
  /\ InitRun
  /\ images = NoFiles
  /\ caller = "function"
  /\ pdf = "ok"
  /\ thr_req \in ThresholdChoices
  /\ thr_used = thr_req
  /\ \E m \in 0..NmsBoxes :
       \E d \in [1..m -> [box : NmsBoxSet, cls : {FIGURE, PLAIN_TEXT}]] :
         \E f \in Rankings(m) : raw = RawInput(d, f)
  /\ run = 1
  /\ prev = NoReturn
  /\ meta_file = NoMetaFile
  /\ disk_fail = 0
  /\ model_loaded = TRUE
  /\ pipe = NoPipe

\* indices = torchvision.ops.nms(...) over all boxes of the page; what is kept
\* is what the page hands on
ApplyNms ==
  /\ pc = "nms"
  /\ pages' = <<[fail |-> "none",
                 dets |-> KeepIndexed(raw, Nms(raw, NmsThreshold))]>>
  /\ pc' = "loop"
  /\ UNCHANGED <<entry, p, results, figure_snippets>>
  /\ UNCHANGED pageLocals
  /\ UNCHANGED logVars
  /\ UNCHANGED callVars
  /\ UNCHANGED outVars
  /\ UNCHANGED envVars

----------------------------------------------------------------------------
(* A second run on the same document *)

\* files an earlier run on another document left in logs/diagrams/images
StaleCrop == [page |-> 1, rect |-> <<0, 7, 1, 8>>]
StaleImages ==
  {NoFiles,
   [f \in {FileName(k) : k \in 1..(CallPages * DocBoxes + 1)} |-> StaleCrop]}

InitRerun ==
  /\ entry = "e2e"
  /\ pages \in CallDocs
  /\ pc = "loop"
  /\ InitRun
  /\ images \in StaleImages
  /\ caller = "run_step_1"
  /\ pdf = "ok"
  /\ thr_req = Defaults
  /\ thr_used = Defaults
  /\ raw = <<>>
  /\ run = 1
  /\ prev = NoReturn
  /\ meta_file = NoMetaFile
  /\ disk_fail = 0
  /\ model_loaded = TRUE
  /\ pipe = NoPipe

\* run_step_1 is called again on the same file: the lists of
\* extract_diagrams_from_pdf are new, the files on disk are the ones left
Rerun ==
  /\ pc = "logged"
  /\ run = 1
  /\ prev' = [figure_snippets |-> figure_snippets,
              grouplog |-> grouplog,
              meta |-> meta,
              images |-> images]
  /\ run' = 2
  /\ pc' = "loop"
  /\ p' = 0
  /\ results' = <<>>
  /\ figure_snippets' = <<>>
  /\ ResetLocals
  /\ grouplog' = <<>>
  /\ st_errors' = <<>>
  /\ UNCHANGED <<entry, pages, preview, meta_file>>
  /\ UNCHANGED envVars
  /\ UNCHANGED logVars
  /\ UNCHANGED <<caller, pdf, thr_req, thr_used, raw, ret>>

\* the page the merger of logic/diagram_extraction.py has just merged is given
\* to the merger of end_to_end.py
OtherCopy ==
  /\ pc = "sorted"
  /\ entry = "logic"
  /\ run = 1
  /\ prev' = [groups |-> groups, ubox |-> ubox, merged |-> merged]
  /\ run' = 2
  /\ entry' = "e2e"
  /\ pc' = "loop"
  /\ p' = 0
  /\ ResetLocals
  /\ UNCHANGED <<pages, results, figure_snippets>>
  /\ UNCHANGED logVars
  /\ UNCHANGED <<caller, pdf, thr_req, thr_used, raw, ret>>
  /\ UNCHANGED outVars
  /\ UNCHANGED envVars

----------------------------------------------------------------------------
(* run_end_to_end_processing of end_to_end.py *)

\* the temporary copy of the uploaded PDF
TempPdf == "tmp.pdf"

\* what generate_diagram_mapping, generate_marks_mapping and
\* extract_questions_from_pdf do when called: they return, or raise RuntimeError
ServiceOutcomes == {"ok", "raises"}

\* step 5: generate_question_cards returns, raises, or gives up with st.error
\* and returns; or QUESTION_CARDS_AVAILABLE is False
CardOutcomes == {"ok", "raises", "returns_early", "unavailable"}

\* one page, failing or with up to DocBoxes figures
PipeDocs == {<<pg>> : pg \in PageInputs(DocDetections, DocBoxes)}

\* results = {'success': False, 'errors': [], 'step_results': {}, ...};
\* temp_files = []
NewPipe(out, cards) ==
  [out |-> out,
   cards |-> cards,
   temp_files |-> {},
   tmp_exists |-> FALSE,
   attempted |-> <<>>,
   called |-> {},
   step_results |-> [s \in 1..5 |-> [success |-> "none"]],
   errors |-> <<>>,
   success |-> FALSE]

\* POST /process-pipeline: run_end_to_end_processing(mock_file, step_callback)
InitPipeline ==
  /\ entry = "e2e"
  /\ caller = "process_pipeline"
  /\ pdf \in {"ok", "corrupt"}
  /\ pages \in IF pdf = "ok" THEN PipeDocs ELSE {<<>>}
  /\ thr_req = Defaults
  /\ thr_used = <<>>
  /\ pc = "pipe_start"
  /\ InitRun
  /\ images = NoFiles
  /\ raw = <<>>
  /\ run = 1
  /\ prev = NoReturn
  /\ meta_file = NoMetaFile
  /\ disk_fail \in 0..1
  /\ model_loaded \in ModelStates(entry)
  /\ \E out \in [2..4 -> ServiceOutcomes], cards \in CardOutcomes :
       pipe = NewPipe(out, cards)

\* the upload is written to a NamedTemporaryFile(delete=False) and its path
\* kept in temp_files; step 1 begins
PipeSaveUpload ==
  /\ pc = "pipe_start"
  /\ pipe' = [pipe EXCEPT !.temp_files = @ \cup {TempPdf},
                          !.tmp_exists = TRUE,
                          !.attempted = Append(@, 1)]
  /\ pc' = "call"
  /\ UNCHANGED <<entry, pages, p, results, figure_snippets>>
  /\ UNCHANGED pageLocals
  /\ UNCHANGED logVars
  /\ UNCHANGED callVars
  /\ UNCHANGED outVars
  /\ UNCHANGED <<disk_fail, model_loaded>>

\* step_results['step1'] is the dict of step 1; step 2: the mapping service is
\* called when step 1 has a meta_path that exists and its 'preview' exists
PipeStep2 ==
  /\ pc = "step1_done"
  /\ caller = "process_pipeline"
  /\ LET has_meta == ret.meta_path # "None" /\ meta_file.written
         has_preview == has_meta /\ meta_file.preview
         raises == has_preview /\ pipe.out[2] = "raises"
     IN pipe' =
          [pipe EXCEPT
             !.attempted = Append(@, 2),
             !.called = IF has_preview
                          THEN @ \cup {"generate_diagram_mapping"} ELSE @,
             !.step_results[1] = ret,
             !.step_results[2] =
                IF ~has_meta
                  THEN [success |-> FALSE, error |-> "No diagrams found"]
                ELSE IF ~has_preview
                  THEN [success |-> FALSE,
                        error |-> "No diagram preview available"]
                ELSE IF raises
                  THEN [success |-> FALSE, error |-> "raised"]
                ELSE [success |-> TRUE],
             !.errors = IF raises THEN Append(@, 2) ELSE @]
  /\ pc' = "step3"
  /\ UNCHANGED <<entry, pages, p, results, figure_snippets>>
  /\ UNCHANGED pageLocals
  /\ UNCHANGED logVars
  /\ UNCHANGED callVars
  /\ UNCHANGED outVars
  /\ UNCHANGED <<disk_fail, model_loaded>>

\* a step that calls its service in a try: the result, or the error recorded
PipeService(s, service, next) ==
  /\ pipe' =
       [pipe EXCEPT
          !.attempted = Append(@, s),
          !.called = @ \cup {service},
          !.step_results[s] =
             IF pipe.out[s] = "raises"
               THEN [success |-> FALSE, error |-> "raised"]
               ELSE [success |-> TRUE],
          !.errors = IF pipe.out[s] = "raises" THEN Append(@, s) ELSE @]
  /\ pc' = next
  /\ UNCHANGED <<entry, pages, p, results, figure_snippets>>
  /\ UNCHANGED pageLocals
  /\ UNCHANGED logVars
  /\ UNCHANGED callVars
  /\ UNCHANGED outVars
  /\ UNCHANGED <<disk_fail, model_loaded>>

\* step 3: generate_marks_mapping(temp_pdf_path)
PipeStep3 == pc = "step3" /\ PipeService(3, "generate_marks_mapping", "step4")

\* step 4: extract_questions_from_pdf(temp_pdf_path)
PipeStep4 ==
  pc = "step4" /\ PipeService(4, "extract_questions_from_pdf", "step5")

\* step 5: generate_question_cards(pdf_filename) if QUESTION_CARDS_AVAILABLE
PipeStep5 ==
  /\ pc = "step5"
  /\ pipe' =
       [pipe EXCEPT
          !.attempted = Append(@, 5),
          !.called = IF pipe.cards # "unavailable"
                       THEN @ \cup {"generate_question_cards"} ELSE @,
          !.step_results[5] =
             IF pipe.cards = "unavailable"
               THEN [success |-> FALSE, error |-> "not available"]
             ELSE IF pipe.cards = "raises"
               THEN [success |-> FALSE, error |-> "raised"]
             ELSE [success |-> TRUE, cards_generated |-> TRUE],
          !.errors = IF pipe.cards = "raises" THEN Append(@, 5) ELSE @]
  /\ pc' = "finalize"
  /\ UNCHANGED <<entry, pages, p, results, figure_snippets>>
  /\ UNCHANGED pageLocals
  /\ UNCHANGED logVars
  /\ UNCHANGED callVars
  /\ UNCHANGED outVars
  /\ UNCHANGED <<disk_fail, model_loaded>>

\* results['success'] = True; finally: os.unlink of every file of temp_files
PipeFinalize ==
  /\ pc = "finalize"
  /\ pipe' = [pipe EXCEPT !.success = TRUE,
                          !.tmp_exists = @ /\ TempPdf \notin pipe.temp_files]
  /\ pc' = "pipe_done"
  /\ UNCHANGED <<entry, pages, p, results, figure_snippets>>
  /\ UNCHANGED pageLocals
  /\ UNCHANGED logVars
  /\ UNCHANGED callVars
  /\ UNCHANGED outVars
  /\ UNCHANGED <<disk_fail, model_loaded>>

----------------------------------------------------------------------------
(* Specifications *)

Next ==
  \/ DetectPage
  \/ PageErrorCaught
  \/ PageErrorRaised
  \/ SelectFigures
  \/ UnionStep
  \/ GroupByRoot
  \/ BuildMerged
  \/ AppendPage
  \/ Return
  \/ LogStart
  \/ LogFigure
  \/ LogNextPage
  \/ LogWrite

NextPage ==
  \/ DetectPage
  \/ SelectFigures
  \/ UnionStep
  \/ GroupByRoot
  \/ BuildMerged
  \/ AppendPage
  \/ Return

\* whole documents, both copies of extract_diagrams_from_pdf, then the log
Spec == Init /\ [][Next]_vars

\* the merger on one page, with the larger geometry
SpecPage == InitPage /\ [][NextPage]_vars

\* the merger on the page of the three figures
SpecScenario == InitScenario /\ [][NextPage]_vars

NextBoth ==
  \/ NextPage
  \/ OtherCopy

\* one page through the merger of logic/ and then through the one of
\* end_to_end.py
SpecBoth == InitBoth /\ [][NextBoth]_vars

\* the merger on one page whose groups may start at the same y
SpecTies == InitTies /\ [][NextPage]_vars

NextMalformed ==
  \/ NextPage
  \/ PageErrorRaised

\* the merger on one page whose detections include malformed ones
SpecMalformed == InitMalformed /\ [][NextMalformed]_vars

NextNms ==
  \/ ApplyNms
  \/ NextPage

\* non-max suppression of one page, then the merger
SpecNms == InitNms /\ [][NextNms]_vars

NextCall ==
  \/ CallExtract
  \/ OpenPdf
  \/ OpenPdfCaught
  \/ OpenNoModel
  \/ OpenPdfRaised
  \/ Next
  \/ Step1Return
  \/ EndpointRespond

\* a request of each caller, from the call to the answer
SpecCall == InitCall /\ [][NextCall]_vars

\* a run of run_step_1 in which the save of one figure may fail
InitSave ==
  /\ entry = "e2e"
  /\ pages \in CallDocs
  /\ pc = "loop"
  /\ InitRun
  /\ images = NoFiles
  /\ caller = "run_step_1"
  /\ pdf = "ok"
  /\ thr_req = Defaults
  /\ thr_used = Defaults
  /\ raw = <<>>
  /\ run = 1
  /\ prev = NoReturn
  /\ meta_file = NoMetaFile
  /\ disk_fail \in 0..(CallPages * DocBoxes)
  /\ model_loaded = TRUE
  /\ pipe = NoPipe

NextSave ==
  \/ DetectPage
  \/ PageErrorCaught
  \/ SelectFigures
  \/ UnionStep
  \/ GroupByRoot
  \/ BuildMerged
  \/ AppendPage
  \/ Return
  \/ LogStart
  \/ LogFigure
  \/ LogNextPage
  \/ LogWrite
  \/ LogSaveFails
  \/ Step1Return

\* run_step_1 with a failing disk
SpecSave == InitSave /\ [][NextSave]_vars

NextPipeline ==
  \/ PipeSaveUpload
  \/ CallExtract
  \/ OpenPdf
  \/ OpenPdfCaught
  \/ OpenNoModel
  \/ NextSave
  \/ PipeStep2
  \/ PipeStep3
  \/ PipeStep4
  \/ PipeStep5
  \/ PipeFinalize

\* POST /process-pipeline, from the upload to the result dict
SpecPipeline == InitPipeline /\ [][NextPipeline]_vars

NextRerun ==
  \/ DetectPage
  \/ PageErrorCaught
  \/ SelectFigures
  \/ UnionStep
  \/ GroupByRoot
  \/ BuildMerged
  \/ AppendPage
  \/ Return
  \/ LogStart
  \/ LogFigure
  \/ LogNextPage
  \/ LogWrite
  \/ Rerun

\* extraction and logging twice on the same document, over the files on disk
SpecRerun == InitRerun /\ [][NextRerun]_vars

----------------------------------------------------------------------------
(* Vocabulary of the properties, stated on the page's input *)

\* the detections the merger of the current page was given
PageDets == IF p >= 1 /\ p <= Len(pages) THEN pages[p].dets ELSE <<>>

FigureClass(d) == d.cls = FIGURE

\* the figure-class detections of the page, in input order; Figs[a] is the
\* figure box the merger numbers a - 1
Figs == SelectSeq(PageDets, FigureClass)

\* the vertical spans overlap: A.y1 < B.y2 and B.y1 < A.y2
SpanOverlap(A, B) == A[2] < B[4] /\ B[2] < A[4]

\* the figures linked to the ones of S by a chain of overlaps
RECURSIVE Closure(_, _)
Closure(F, S) ==
  LET T == S \cup {b \in DOMAIN F : \E a \in S : SpanOverlap(F[a].box, F[b].box)}
  IN IF T = S THEN S ELSE Closure(F, T)

\* positions in `groups` of the groups holding figure a
GroupsOf(a) ==
  {g \in DOMAIN groups :
     \E x \in DOMAIN groups[g].members : groups[g].members[x] = a - 1}

\* the member boxes of group g
MemberBoxes(F, g) == {F[i + 1].box : i \in Range(groups[g].members)}

\* b is the coordinate-wise union of the boxes of M
IsUnionOf(b, M) ==
  /\ \A m \in M : b[1] <= m[1] /\ b[2] <= m[2] /\ m[3] <= b[3] /\ m[4] <= b[4]
  /\ \E m \in M : b[1] = m[1]
  /\ \E m \in M : b[2] = m[2]
  /\ \E m \in M : b[3] = m[3]
  /\ \E m \in M : b[4] = m[4]

\* the pixel rectangle page.crop is given for box b
PixelRect(b) == <<b[1] \div Sub, b[2] \div Sub, b[3] \div Sub, b[4] \div Sub>>

----------------------------------------------------------------------------
(* Properties of the merger, under SpecPage *)

\* C1: two figure boxes of a page whose vertical spans overlap are in the same
\* Merge Group, whatever their x-coordinates are.
C1_OverlapMerged ==
  pc = "grouped" =>
    LET F == Figs
        G == [a \in DOMAIN F |-> GroupsOf(a)]
    IN \A a, b \in DOMAIN F :
         SpanOverlap(F[a].box, F[b].box) => G[a] \cap G[b] # {}

\* side-by-side boxes (no common x) with overlapping vertical spans, merged
\* into the only diagram of the page
C1_Witness ==
  /\ pc = "sorted"
  /\ Len(merged) = 1
  /\ \E a, b \in DOMAIN Figs :
       /\ a # b
       /\ Figs[a].box[3] <= Figs[b].box[1]
       /\ SpanOverlap(Figs[a].box, Figs[b].box)
       /\ GroupsOf(a) = GroupsOf(b)

\* C2: two figure boxes that no chain of pairwise overlapping figure boxes
\* connects are in different Merge Groups and yield two separate diagrams.
C2_DisjointSeparate ==
  pc = "sorted" =>
    LET F == Figs
        G == [a \in DOMAIN F |-> GroupsOf(a)]
    IN \A a \in DOMAIN F :
         LET C == Closure(F, {a})
         IN \A b \in DOMAIN F \ C :
              /\ G[a] \cap G[b] = {}
              /\ G[a] # {} /\ G[b] # {}
              /\ Len(merged) = Len(groups)
              /\ \E k, l \in DOMAIN merged :
                   /\ k # l
                   /\ \E g \in G[a] : merged[k].crop.rect = PixelRect(ubox[g])
                   /\ \E g \in G[b] : merged[l].crop.rect = PixelRect(ubox[g])

\* two boxes with a gap between their spans ended in two diagrams, a third
\* figure box on the page
C2_Witness ==
  /\ pc = "sorted"
  /\ Len(Figs) = 3
  /\ Len(merged) = 2
  /\ \E a, b \in DOMAIN Figs :
       /\ Figs[a].box[4] < Figs[b].box[2]
       /\ b \notin Closure(Figs, {a})
       /\ GroupsOf(a) \cap GroupsOf(b) = {}

\* C3: the Merge Groups partition the figure boxes of the page and are the
\* connected components of the overlap graph, for every input order.
C3_GroupsAreComponents ==
  pc = "grouped" =>
    LET F == Figs
        G == [a \in DOMAIN F |-> GroupsOf(a)]
    IN /\ n = Len(F)
       /\ \A a \in DOMAIN F : Cardinality(G[a]) = 1
       /\ \A g \in DOMAIN groups :
            /\ groups[g].members # <<>>
            /\ \A x, y \in DOMAIN groups[g].members :
                 x # y => groups[g].members[x] # groups[g].members[y]
            /\ \A x \in DOMAIN groups[g].members :
                 groups[g].members[x] \in 0..(n - 1)
       /\ \A a \in DOMAIN F :
            LET C == Closure(F, {a})
            IN \A b \in DOMAIN F : (G[a] = G[b]) <=> (b \in C)

\* a chain: the first and the second box do not overlap, a later box bridges
C3_Witness ==
  /\ pc = "grouped"
  /\ Len(groups) = 1
  /\ \E a, b, c \in DOMAIN Figs :
       /\ a < b /\ b < c
       /\ ~SpanOverlap(Figs[a].box, Figs[b].box)
       /\ SpanOverlap(Figs[a].box, Figs[c].box)
       /\ SpanOverlap(Figs[b].box, Figs[c].box)
       /\ GroupsOf(a) = GroupsOf(b)

\* C4: figure boxes whose vertical spans only touch (A.y2 = B.y1) and that no
\* third box bridges are not merged.
C4_TouchingNotMerged ==
  pc = "grouped" =>
    LET F == Figs
        G == [a \in DOMAIN F |-> GroupsOf(a)]
    IN \A a, b \in DOMAIN F :
         (F[a].box[4] = F[b].box[2] /\ b \notin Closure(F, {a}))
           => G[a] \cap G[b] = {}

\* touching boxes in two diagrams
C4_Witness ==
  /\ pc = "sorted"
  /\ Len(merged) >= 2
  /\ \E a, b \in DOMAIN Figs :
       /\ Figs[a].box[4] = Figs[b].box[2]
       /\ GroupsOf(a) \cap GroupsOf(b) = {}

\* C5: the bounding box of a Merged Diagram is the coordinate-wise union of the
\* member boxes of its group, and contains each of them.
C5_UnionBox ==
  pc = "sorted" =>
    LET F == Figs
    IN /\ Len(ubox) = Len(groups)
       /\ \A g \in DOMAIN groups :
            /\ IsUnionOf(ubox[g], MemberBoxes(F, g))
            /\ \E k \in DOMAIN merged : merged[k].crop.rect = PixelRect(ubox[g])

\* a group of two boxes in different columns: the union is neither of them
C5_Witness ==
  /\ pc = "sorted"
  /\ \E g \in DOMAIN groups :
       /\ Len(groups[g].members) >= 2
       /\ ubox[g] \notin MemberBoxes(Figs, g)
       /\ IsUnionOf(ubox[g], MemberBoxes(Figs, g))

\* C6: the Merged Diagrams of a page are listed by ascending minimum y1 of
\* their groups, whatever the order of the detections.
C6_SortedByTop ==
  /\ pc = "sorted" =>
       LET F == Figs
           top == [g \in DOMAIN groups |->
                     CHOOSE y \in {m[2] : m \in MemberBoxes(F, g)} :
                       \A m \in MemberBoxes(F, g) : y <= m[2]]
       IN /\ Len(merged) = Len(groups)
          /\ \A i, j \in DOMAIN merged : i < j => merged[i].y1 <= merged[j].y1
          /\ \A g \in DOMAIN groups :
               Cardinality({k \in DOMAIN merged : merged[k].y1 = top[g]})
                 = Cardinality({h \in DOMAIN groups : top[h] = top[g]})
  /\ \A q \in DOMAIN figure_snippets :
       \A i, j \in DOMAIN figure_snippets[q] :
         i < j => figure_snippets[q][i].rect[2] <= figure_snippets[q][j].rect[2]

\* the lower diagram was detected first and is listed second
C6_Witness ==
  /\ pc = "sorted"
  /\ Len(merged) >= 2
  /\ ubox[1][2] > ubox[2][2]
  /\ merged[1].y1 < merged[2].y1

\* C8: a page without figure-class boxes yields no Merged Diagram, whatever
\* other boxes it has; boxes of other classes take no part in the grouping.
C8_NonFiguresIgnored ==
  LET F == Figs
  IN /\ (pc \in {"loop", "returned"} /\ p >= 1 /\ F = <<>>)
          => figure_snippets[p] = <<>>
     /\ pc \in {"union", "grouped", "sorted"}
          => /\ F # <<>>
             /\ fig_boxes = [a \in DOMAIN F |-> F[a].box]
     /\ pc = "sorted"
          => \A g \in DOMAIN groups :
               \A i \in Range(groups[g].members) :
                 /\ i + 1 \in DOMAIN F
                 /\ \E a \in DOMAIN F : ubox[g][1] = F[a].box[1]
                 /\ \E a \in DOMAIN F : ubox[g][2] = F[a].box[2]
                 /\ \E a \in DOMAIN F : ubox[g][3] = F[a].box[3]
                 /\ \E a \in DOMAIN F : ubox[g][4] = F[a].box[4]

\* a page of text blocks and tables only, processed, with an empty list
C8_Witness ==
  /\ pc = "returned"
  /\ Len(PageDets) >= 2
  /\ \E k, l \in DOMAIN PageDets : PageDets[k].cls # PageDets[l].cls
  /\ Figs = <<>>
  /\ figure_snippets = << <<>> >>

\* C9: a figure box that overlaps no other figure box of its page forms a
\* group of its own, whose Merged Diagram has exactly that box.
C9_IsolatedUnchanged ==
  pc = "sorted" =>
    LET F == Figs
    IN \A a \in DOMAIN F :
         (\A b \in DOMAIN F \ {a} : ~SpanOverlap(F[a].box, F[b].box))
           => \E g \in DOMAIN groups :
                /\ groups[g].members = <<a - 1>>
                /\ ubox[g] = F[a].box
                /\ \E k \in DOMAIN merged :
                     /\ merged[k].y1 = F[a].box[2]
                     /\ merged[k].crop.rect = PixelRect(F[a].box)

\* an isolated box next to a group of two boxes
C9_Witness ==
  /\ pc = "sorted"
  /\ Len(groups) = 2
  /\ \E a \in DOMAIN Figs :
       /\ \A b \in DOMAIN Figs \ {a} : ~SpanOverlap(Figs[a].box, Figs[b].box)
       /\ \E g \in DOMAIN groups :
            groups[g].members = <<a - 1>> /\ ubox[g] = Figs[a].box
  /\ \E g \in DOMAIN groups : Len(groups[g].members) = 2

----------------------------------------------------------------------------
(* Properties of the document, under Spec *)

\* the Merged Diagrams of the document in page order, then in page-list order
RECURSIVE Flatten(_, _)
Flatten(fs, q) ==
  IF q > Len(fs) THEN <<>>
  ELSE [k \in DOMAIN fs[q] |-> [page |-> q, crop |-> fs[q][k]]]
         \o Flatten(fs, q + 1)

\* C7: log_diagram_snippets gives the Merged Diagrams the identifiers 1..N,
\* without gap or repeat, one each, in page order and top to bottom in a page,
\* also when pages have no diagram.
C7_SequentialIds ==
  /\ pc \in {"logging", "logged"} =>
       /\ \A k \in DOMAIN meta : meta[k].figure_id = k
       /\ fig_counter = Len(meta) + 1
  /\ pc = "logged" =>
       LET flat == Flatten(figure_snippets, 1)
       IN /\ Len(meta) = Len(flat)
          /\ \A k \in DOMAIN meta :
               /\ meta[k].page = flat[k].page
               /\ meta[k].path = <<"figure-", k, ".png">>
               /\ meta[k].path \in DOMAIN images
               /\ images[meta[k].path] = flat[k].crop
          /\ \A k, l \in DOMAIN meta :
               k < l =>
                 \/ meta[k].page < meta[l].page
                 \/ /\ meta[k].page = meta[l].page
                    /\ flat[k].crop.rect[2] <= flat[l].crop.rect[2]

\* three diagrams logged: none on page 1, two on page 2, one on page 3
C7_Witness ==
  /\ pc = "logged"
  /\ Len(figure_snippets) = 3
  /\ figure_snippets[1] = <<>>
  /\ Len(figure_snippets[2]) = 2
  /\ Len(figure_snippets[3]) = 1
  /\ Len(meta) = 3
  /\ meta[3].figure_id = 3 /\ meta[3].page = 3

\* C10: a page whose detection fails contributes an empty list and the later
\* pages are still processed: no failure of a page ends the run, in either copy
\* of extract_diagrams_from_pdf.
C10_PageFailureIsolated ==
  /\ pc # "raised"
  /\ pc = "returned" =>
       /\ Len(figure_snippets) = Len(pages)
       /\ \A k \in DOMAIN pages :
            pages[k].fail # "none" => figure_snippets[k] = <<>>

----------------------------------------------------------------------------
(* Properties of the crop, under SpecPage *)

\* rectangle r, in whole pixels, contains box m, in 1/Sub of a pixel
RectContains(r, m) ==
  /\ r[1] * Sub <= m[1]
  /\ r[2] * Sub <= m[2]
  /\ m[3] <= r[3] * Sub
  /\ m[4] <= r[4] * Sub

\* C18: the integer-pixel rectangle a Merged Diagram is cropped with,
\* (int(x1), int(y1), int(x2), int(y2)), contains every member box of its
\* group, for non-negative and possibly fractional coordinates.
C18_CropContainsMembers ==
  pc = "sorted" =>
    \A g \in DOMAIN groups :
      /\ \E k \in DOMAIN merged : merged[k].crop = Crop(p, ubox[g])
      /\ \A m \in MemberBoxes(Figs, g) : RectContains(Crop(p, ubox[g]).rect, m)

----------------------------------------------------------------------------
(* Properties of the returned lists and of the metadata, under Spec *)

\* C13: the run returns one visualization and one list of Merged Diagrams per
\* page, in document order, index k for page k + 1, also when the detection
\* failed on some pages.
C13_OnePerPage ==
  pc = "returned" =>
    /\ Len(results) = Len(pages)
    /\ Len(figure_snippets) = Len(pages)
    /\ \A k \in DOMAIN results : results[k] = k

\* C19: once log_diagram_snippets is through, the metadata has one record per
\* Merged Diagram, in identifier order, each with the figure id, the 1-based
\* page and the path; the crop of id k is the file figure-k.png, and no two
\* diagrams share a path.
C19_MetadataRecords ==
  pc = "logged" =>
    LET flat == Flatten(figure_snippets, 1)
    IN /\ Len(meta) = Len(flat)
       /\ \A k \in DOMAIN meta :
            /\ DOMAIN meta[k] = {"figure_id", "page", "path"}
            /\ meta[k].figure_id = k
            /\ meta[k].page \in 1..Len(pages)
            /\ figure_snippets[meta[k].page] # <<>>
            /\ meta[k].page = flat[k].page
            /\ meta[k].path = <<"figure-", k, ".png">>
       /\ DOMAIN images = {<<"figure-", k, ".png">> : k \in DOMAIN flat}
       /\ \A k \in DOMAIN flat : images[<<"figure-", k, ".png">>] = flat[k].crop
       /\ \A k, l \in DOMAIN meta : k # l => meta[k].path # meta[l].path

\* two diagrams of different pages written to figure-1.png and figure-2.png
C19_Witness ==
  /\ pc = "logged"
  /\ Len(meta) >= 2
  /\ meta[1].page # meta[2].page
  /\ meta[1].path # meta[2].path
  /\ images[meta[1].path] # images[meta[2].path]
  /\ images[meta[2].path] = figure_snippets[meta[2].page][1]

----------------------------------------------------------------------------
(* Properties of the callers, under SpecCall *)

\* the value rv names, in a list of warnings, every page whose detection failed
HasPageWarnings(rv) ==
  \A k \in DOMAIN pages :
    pages[k].fail # "none" =>
      /\ "warnings" \in DOMAIN rv
      /\ \E w \in DOMAIN rv.warnings : rv.warnings[w].page = k

\* C11: a PDF that cannot be read or rasterized is a fatal failure the caller
\* observes: run_step_1 does not report success, the endpoint does not answer
\* success = True, and nothing is produced or persisted for the document.
C11_CorruptPdfFatal ==
  pdf = "corrupt" =>
    /\ pc \notin {"logging", "logged"}
    /\ pc \in {"step1_done", "responded"} => ret.success # TRUE

\* C12: when the detection fails on a page, the caller receives, in the value
\* returned, the page-indexed list of diagram lists together with a list of
\* warnings holding one warning for each failed page.
C12_WarningsReturned ==
  /\ pc = "returned" =>
       /\ Len(ExtractReturn.figure_snippets) = Len(pages)
       /\ HasPageWarnings(ExtractReturn)
  /\ pc \in {"step1_done", "responded"} => HasPageWarnings(ret)

\* C15: the confidence and IoU thresholds the caller gives are the values the
\* detection and the non-max suppression are run with, for the function, for
\* run_step_1, for POST /extract-diagrams and for POST /process-pipeline.
C15_ThresholdsUsed ==
  pc \notin {"call"} => thr_used = thr_req

\* C20: the composed preview lists the crops in ascending figure-id order, and
\* its labels "Page p" and "Figure k" agree with the metadata: the crop under
\* "Figure k" of "Page p" is the one recorded with id k and page p, also when
\* pages without diagrams lie between pages with diagrams.
C20_PreviewAgreesWithMetadata ==
  (pc = "logged" /\ preview.status = "ok") =>
    /\ Len(preview.items) = Len(meta)
    /\ \A k \in DOMAIN preview.items :
         /\ preview.items[k].figure = k
         /\ preview.items[k].figure = meta[k].figure_id
         /\ preview.items[k].page = meta[k].page
         /\ preview.items[k].crop = images[meta[k].path]

\* diagrams on pages 1 and 3, none on page 2: the last label is of page 3
C20_Witness ==
  /\ pc = "logged"
  /\ preview.status = "ok"
  /\ Len(figure_snippets) = 3
  /\ figure_snippets[1] # <<>>
  /\ figure_snippets[2] = <<>>
  /\ figure_snippets[3] # <<>>
  /\ preview.items[Len(preview.items)].page = 3
  /\ preview.items[Len(preview.items)].figure = Len(meta)

----------------------------------------------------------------------------
(* Properties of a second run, under SpecRerun *)

\* C14: running the extraction and the identifier assignment twice on the same
\* pages with the same thresholds gives the same Merge Groups, the same crop
\* rectangles in the same per-page order and the same figure ids; nothing a
\* previous run left behind changes the result.
C14_RerunSameResult ==
  (run = 2 /\ pc = "logged") =>
    /\ grouplog = prev.grouplog
    /\ figure_snippets = prev.figure_snippets
    /\ meta = prev.meta
    /\ \A k \in DOMAIN meta :
         images[meta[k].path] = prev.images[meta[k].path]

\* the second run is through on a document with two diagrams and a failed
\* page, over files left by an earlier run on another document
C14_Witness ==
  /\ run = 2
  /\ pc = "logged"
  /\ Len(meta) >= 2
  /\ meta = prev.meta
  /\ st_errors # <<>>
  /\ \E f \in DOMAIN images : images[f] = StaleCrop

----------------------------------------------------------------------------
(* Properties of malformed detections, under SpecMalformed *)

\* the box has positive area and the class id is one of 0..9
WellFormed(d) ==
  /\ d.box[1] < d.box[3]
  /\ d.box[2] < d.box[4]
  /\ d.cls \in 0..(NUM_CLASSES - 1)

WellFormedFigure(d) == WellFormed(d) /\ d.cls = FIGURE

\* C17: a detection without positive area (x2 <= x1 or y2 <= y1) or with a
\* class id outside 0..9 is dropped before the merging: it joins no Merge
\* Group, widens no union box, yields no crop, and does not make the
\* processing of the page fail.
C17_MalformedDropped ==
  LET W == SelectSeq(PageDets, WellFormedFigure)
      WB == {W[k].box : k \in DOMAIN W}
  IN /\ pc # "raised"
     /\ pc \in {"union", "grouped", "sorted"} =>
          fig_boxes = [k \in DOMAIN W |-> W[k].box]
     /\ pc = "sorted" =>
          \A g \in DOMAIN ubox :
            \E M \in SUBSET WB : M # {} /\ IsUnionOf(ubox[g], M)
     /\ (pc = "returned" /\ W = <<>>) => figure_snippets[1] = <<>>

----------------------------------------------------------------------------
(* Properties of the non-max suppression, under SpecNms *)

\* the detections of raw that the suppression kept
Survivors ==
  {k \in DOMAIN raw : \E j \in DOMAIN pages[1].dets : pages[1].dets[j] = raw[k]}

\* IoU of the boxes of raw[h] and raw[k] above the IoU threshold in use
TooClose(h, k) ==
  LET A == raw[h].box
      B == raw[k].box
      w == Min({A[3], B[3]}) - Max({A[1], B[1]})
      h2 == Min({A[4], B[4]}) - Max({A[2], B[2]})
      ov == IF w > 0 /\ h2 > 0 THEN w * h2 ELSE 0
      un == (A[3] - A[1]) * (A[4] - A[2]) + (B[3] - B[1]) * (B[4] - B[2]) - ov
  IN ov * 100 > thr_used[2] * un

\* C16: the suppression is greedy non-max suppression over all detections of
\* the page, whatever their class: the box of highest confidence survives, a
\* box survives iff no surviving box of higher confidence has IoU with it above
\* the threshold, and no two survivors have IoU above the threshold.
C16_GreedyNms ==
  pc # "nms" =>
    LET S == Survivors
    IN /\ Len(pages[1].dets) = Cardinality(S)
       /\ \A k \in DOMAIN raw :
            (\A l \in DOMAIN raw : raw[l].score <= raw[k].score) => k \in S
       /\ \A k \in DOMAIN raw :
            k \in S <=>
              ~\E h \in S : raw[h].score > raw[k].score /\ TooClose(h, k)
       /\ \A h, k \in S : h # k => ~TooClose(h, k)
       /\ \A i, j \in DOMAIN pages[1].dets :
            i < j => pages[1].dets[i].score > pages[1].dets[j].score

\* a figure box suppressed by a text box of higher confidence, a third box
\* surviving next to it
C16_Witness ==
  /\ pc = "returned"
  /\ Len(raw) = 3
  /\ Cardinality(Survivors) = 2
  /\ \E k \in DOMAIN raw \ Survivors :
       /\ raw[k].cls = FIGURE
       /\ \E h \in Survivors :
            /\ raw[h].cls = PLAIN_TEXT
            /\ raw[h].score > raw[k].score
            /\ TooClose(h, k)
  /\ figure_snippets = << <<>> >>

\* C21: the metadata list belongs to one run and only grows during it: every
\* call of log_diagram_snippets starts from an empty list and appends, so at
\* each moment of a run the list holds the records of the diagrams that run
\* has saved so far, and the file it writes holds records of that run only.
C21_MetaOfThisRun ==
  pc \in {"logging", "logged"} =>
    LET flat == Flatten(figure_snippets, 1)
        done == TotalFigures(SubSeq(figure_snippets, 1, page_idx)) + fig_k
    IN /\ Len(meta) = done
       /\ \A k \in DOMAIN meta :
            /\ meta[k].figure_id = k
            /\ meta[k].page = flat[k].page
            /\ images[meta[k].path] = flat[k].crop
       /\ pc = "logged" => meta_file.figures = meta /\ Len(meta) = Len(flat)

\* the second run has saved its first diagram; the first run left two records
C21_Witness ==
  /\ run = 2
  /\ pc = "logging"
  /\ Len(prev.meta) >= 2
  /\ Len(meta) = 1
  /\ meta_file.figures = prev.meta

----------------------------------------------------------------------------
(* Properties of a failing save, under SpecSave *)

\* C22: a failure while a crop is persisted does not roll back what was done
\* before it: the crops and the metadata records of the diagrams persisted
\* before the failing one are available to the caller after the failure.
C22_SaveFailureKeepsEarlier ==
  (pc = "step1_done" /\ disk_fail \in 1..TotalFigures(figure_snippets)) =>
    \A k \in 1..(disk_fail - 1) :
      /\ <<"figure-", k, ".png">> \in DOMAIN images
      /\ ret.meta_path # "None"
      /\ meta_file.written
      /\ \E r \in DOMAIN meta_file.figures : meta_file.figures[r].figure_id = k

----------------------------------------------------------------------------
(* Properties of the page loop, under Spec *)

\* C23: the pages are processed one after another in document order: the
\* detection of a page starts only at the head of the loop, on the page after
\* the last one taken, when the lists of all pages before it have been appended
\* and nothing of an earlier page is still in progress; while a page is in
\* progress exactly the pages before it have their lists.
C23_OnePageAtATime ==
  [][/\ p' # p =>
          /\ pc = "loop"
          /\ p' = p + 1
          /\ p' <= Len(pages)
          /\ Len(figure_snippets) = p
          /\ fig_boxes = <<>> /\ groups = <<>> /\ merged = <<>>
     /\ pc' \in {"select", "union", "grouped", "sorted"} =>
          Len(figure_snippets') = p' - 1
     /\ pc' \in {"loop", "returned"} => Len(figure_snippets') = p'
    ]_vars

\* the second page is in progress, the list of the first page is appended
C23_Witness ==
  /\ pc = "union"
  /\ p = 2
  /\ Len(pages) = 3
  /\ Len(figure_snippets) = 1
  /\ figure_snippets[1] # <<>>
  /\ fig_boxes = SelectFigBoxes(pages[2].dets)

\* the rectangles of the Merged Diagrams of a page list
Rects(figs) == [r \in DOMAIN figs |-> figs[r].rect]

C25_ThreeBoxesTwoDiagrams ==
  /\ pc = "sorted" =>
       /\ Len(merged) = 2
       /\ merged[1].crop.rect[2] = 100 /\ merged[1].crop.rect[4] = 400
       /\ merged[2].crop.rect[2] = 600 /\ merged[2].crop.rect[4] = 800
  /\ pc = "returned" =>
       /\ Len(figure_snippets) = 1
       /\ [k \in DOMAIN figure_snippets[1] |->
             <<figure_snippets[1][k].rect[2], figure_snippets[1][k].rect[4]>>]
            = <<(<<100, 400>>), (<<600, 800>>)>>

\* the lowest box is detected first and the two upper ones last, in columns
\* that do not meet
C25_Witness ==
  /\ pc = "returned"
  /\ pages[1].dets[1].box[2] = 600 * Sub
  /\ pages[1].dets[2].box[2] = 250 * Sub
  /\ pages[1].dets[3].box[2] = 100 * Sub
  /\ pages[1].dets[2].box[3] <= pages[1].dets[3].box[1]
  /\ Len(figure_snippets[1]) = 2

FirstMember(g) == Min(Range(groups[g].members))
GroupMinY1(g) == Min({fig_boxes[i + 1][2] : i \in Range(groups[g].members)})

\* group h comes before group g: it starts higher on the page, or at the same
\* y with a smaller first member
ComesBefore(h, g) ==
  \/ GroupMinY1(h) < GroupMinY1(g)
  \/ GroupMinY1(h) = GroupMinY1(g) /\ FirstMember(h) < FirstMember(g)

\* C27: the groups are collected in ascending order of their smallest member
\* index, and the sorted list has them by upper edge, groups of the same upper
\* edge in the order of their smallest member index, whichever index is the
\* root of a group.
C27_TiesByFirstMember ==
  pc = "sorted" =>
    /\ \A a, b \in DOMAIN groups : a < b => FirstMember(a) < FirstMember(b)
    /\ Len(merged) = Len(groups)
    /\ \A g \in DOMAIN groups :
         LET k == Cardinality({h \in DOMAIN groups : ComesBefore(h, g)}) + 1
         IN /\ merged[k].y1 = GroupMinY1(g)
            /\ merged[k].crop = Crop(p, ubox[g])

\* a group of three whose root is not its first member, and a box without
\* height at the same upper edge detected after it
C27_Witness ==
  /\ pc = "sorted"
  /\ Len(groups) = 2
  /\ Len(groups[1].members) = 3
  /\ groups[1].root # FirstMember(1)
  /\ GroupMinY1(1) = GroupMinY1(2)
  /\ merged[1].crop # merged[2].crop
  /\ merged[1].crop = Crop(p, ubox[1])

\* step 1 failed as a whole: the file could not be read, there is no model, or
\* the figures could not be written
Step1Failed ==
  pdf = "corrupt" \/ ~model_loaded \/ pipe.step_results[1].meta_path = "None"

\* a later step failed: what it calls raised, or gave up
StepFailed(s) ==
  IF s = 1 THEN Step1Failed
  ELSE IF s = 5 THEN pipe.cards \in {"raises", "returns_early"}
  ELSE pipe.out[s] = "raises" /\ pipe.step_results[s].error = "raised"

\* C28: run_end_to_end_processing attempts the steps in the order 1..5; a step
\* that fails is recorded (success False in step_results and a message in
\* errors) and the later steps are attempted all the same; step 2 calls the
\* mapping service only when step 1 left a metadata file whose preview
\* exists; the temporary PDF is removed whatever happened.
C28_FailuresRecorded ==
  pc = "pipe_done" =>
    /\ pipe.attempted = <<1, 2, 3, 4, 5>>
    /\ \A s \in 1..5 :
         StepFailed(s) =>
           /\ pipe.step_results[s].success = FALSE
           /\ \E k \in DOMAIN pipe.errors : pipe.errors[k] = s
    /\ "generate_diagram_mapping" \in pipe.called =>
         meta_file.written /\ meta_file.preview
    /\ ~pipe.tmp_exists

\* the largest figure id of the metadata file, 0 when it has no record
LargestFigureId ==
  Max({0} \cup {meta_file.figures[k].figure_id : k \in DOMAIN meta_file.figures})

\* C29: whenever run_step_1 reports success with a metadata path,
\* total_figures is the number of metadata records and the largest figure id
\* (0 when there is none), and the pages_processed the endpoint reports is the
\* number of pages of the PDF.
C29_TotalsAgree ==
  /\ (pc = "step1_done" /\ ret.success = TRUE /\ ret.meta_path # "None") =>
       /\ ret.total_figures = Len(meta_file.figures)
       /\ ret.total_figures = LargestFigureId
  /\ (pc = "responded" /\ ret.success = TRUE /\ pdf = "ok") =>
       /\ ret.total_figures = Len(meta_file.figures)
       /\ ret.pages_processed = Len(pages)

\* the index k steps up from i in par
RECURSIVE Up(_, _, _)
Up(par, i, k) == IF k = 0 THEN i ELSE Up(par, par[i], k - 1)

\* where n steps up from i end, and the indices that are their own parent
Top(par, i) == Up(par, i, n)
Roots(par) == {i \in DOMAIN par : par[i] = i}

\* par is a forest over 0..n-1: every index is at most n steps below a root,
\* so that find(i) terminates
IsForest(par) ==
  /\ DOMAIN par = 0..(n - 1)
  /\ \A i \in DOMAIN par : par[i] \in 0..(n - 1) /\ Top(par, i) \in Roots(par)

\* C30: during and after the union loop parents is a forest over 0..n-1; a
\* step of the loop either leaves the sets of indices that share a root as
\* they are (path compression alone), or joins exactly the two sets of the
\* two distinct roots of i and j, the root of j going under the root of i;
\* the group loop after it leaves the sets as they are.
C30_ForestKept ==
  [][(pc = "union" /\ pc' \in {"union", "grouped"}) =>
       LET ri == Top(parents, i1)
           rj == Top(parents, j1)
           joins == /\ pc' = "union"
                    /\ VOverlap(FigBox(i1), FigBox(j1))
                    /\ ri # rj
       IN /\ IsForest(parents)
          /\ IsForest(parents')
          /\ Roots(parents') = IF joins THEN Roots(parents) \ {rj}
                                        ELSE Roots(parents)
          /\ \A a, b \in DOMAIN parents :
               (Top(parents', a) = Top(parents', b)) <=>
                 \/ Top(parents, a) = Top(parents, b)
                 \/ joins /\ {Top(parents, a), Top(parents, b)} = {ri, rj}
    ]_vars

\* four boxes: 0 and 1 do not overlap, 2 and 3 overlap both; index 3, put
\* under 0 and 0 under 1, is under 1 after find(3) in union(1, 3)
C30_Witness ==
  /\ pc = "union"
  /\ n = 4
  /\ ~VOverlap(FigBox(0), FigBox(1))
  /\ VOverlap(FigBox(0), FigBox(3))
  /\ VOverlap(FigBox(1), FigBox(3))
  /\ parents[2] = 0
  /\ parents[0] = 1
  /\ parents[3] = 1
  /\ i1 = 2

====
